---- MODULE Spec2Model ----
(***************************************************************************)
(* Patient intake bot: the flow definition (flow_config), its function     *)
(* handlers, the calendar manager (slot availability and booking) and the  *)
(* flow engine that drives them (server/flow.py, server/bot-openai.py).    *)
(*                                                                         *)
(* Strings whose characters the code inspects (names, times) are sequences *)
(* of one-character strings.  Dates are records [form, day]: `form' is the *)
(* shape of the text ("iso" = "2027-01-05", "unpadded" = "2027-1-5",       *)
(* "ws" = " 2027-01-05 " with surrounding blanks, "other" = anything that  *)
(* strptime('%Y-%m-%d') rejects) and `day' the day of the month it names   *)
(* (all dates of the model lie in one 31-day month).  Times of day are     *)
(* minutes after midnight.                                                 *)
(***************************************************************************)
EXTENDS Integers, Sequences, FiniteSets, TLC

\* ------------------------------------------------------------------ bounds
MaxHistory == 9    \* messages kept in one session's history
MaxDay == 3         \* the latest day a caller asks for; today is day 2
MaxList == 1        \* longest list of prescriptions, allergies, ...
MaxDurUnits == 4    \* slot durations 15, 30, ... minutes in the slot harness
MaxBusy == 2        \* busy intervals per day in the slot harness

\* --------------------------------------------------------- program constants
BusinessStartHour == 9
BusinessEndHour == 17
StepMinutes == 30
DefaultDuration == 30
MinNameLen == 2
Today == 2
DaysInMonth == 31

None == "<None>"

\* ------------------------------------------------------------------ strings
DigitChars == <<"0", "1", "2", "3", "4", "5", "6", "7", "8", "9">>

IsDigit(c) == \E i \in 1..10 : DigitChars[i] = c

DigitVal(c) == (CHOOSE i \in 1..10 : DigitChars[i] = c) - 1

IsSpace(c) == c = " "

RECURSIVE LStrip(_)
LStrip(s) == IF s # <<>> /\ IsSpace(Head(s)) THEN LStrip(Tail(s)) ELSE s

RECURSIVE RStrip(_)
RStrip(s) ==
    IF s # <<>> /\ IsSpace(s[Len(s)]) THEN RStrip(SubSeq(s, 1, Len(s) - 1)) ELSE s

\* str.strip()
Strip(s) == RStrip(LStrip(s))

\* Python truthiness of an optional string: None and "" are falsy.
Falsy(x) == x = None \/ x = ""

\* ----------------------------------------------------------- times of day
\* strptime(s, '%H:%M'): hour 2[0-3]|[0-1]\d|\d, minute [0-5]\d|\d, and
\* nothing before or after.  The value in minutes, or -1 (ValueError).
ParseHM(s) ==
    LET colons == {i \in 1..Len(s) : s[i] = ":"}
    IN  IF Cardinality(colons) # 1 THEN -1
        ELSE LET c == CHOOSE i \in colons : TRUE
                 h == SubSeq(s, 1, c - 1)
                 m == SubSeq(s, c + 1, Len(s))
                 digits(t) == \A i \in 1..Len(t) : IsDigit(t[i])
                 val(t) == IF Len(t) = 1 THEN DigitVal(t[1])
                           ELSE 10 * DigitVal(t[1]) + DigitVal(t[2])
             IN  IF /\ Len(h) \in {1, 2} /\ Len(m) \in {1, 2}
                    /\ digits(h) /\ digits(m)
                    /\ val(h) <= 23
                    /\ (Len(m) = 2 => val(m) <= 59)
                 THEN 60 * val(h) + val(m)
                 ELSE -1

\* The format '%H' in place of '%H:%M': the minutes are lost.
FormatHourOnly(t) ==
    <<DigitChars[((t \div 60) \div 10) + 1], DigitChars[((t \div 60) % 10) + 1]>>

\* strftime('%H:%M') of a time of day given in minutes.
FormatHM(t) ==
    LET h == t \div 60
        m == t % 60
    IN  <<DigitChars[(h \div 10) + 1], DigitChars[(h % 10) + 1], ":",
          DigitChars[(m \div 10) + 1], DigitChars[(m % 10) + 1]>>

\* str.lower(), on the letters the model's inputs use.
LowerChar(c) ==
    CASE c = "A" -> "a" [] c = "P" -> "p" [] c = "M" -> "m" [] OTHER -> c

Lower(s) == [i \in 1..Len(s) |-> LowerChar(s[i])]

\* sub in s
Contains(s, sub) ==
    \E i \in 1..(Len(s) - Len(sub) + 1) : SubSeq(s, i, i + Len(sub) - 1) = sub

\* s.replace(sub, by): every occurrence, left to right, not overlapping.
RECURSIVE Replace(_, _, _)
Replace(s, sub, by) ==
    IF Len(s) < Len(sub) \/ sub = <<>> THEN s
    ELSE IF SubSeq(s, 1, Len(sub)) = sub
         THEN by \o Replace(SubSeq(s, Len(sub) + 1, Len(s)), sub, by)
         ELSE <<Head(s)>> \o Replace(Tail(s), sub, by)

\* strptime(s, '%I:%M%p'): hour 1[0-2]|0[1-9]|[1-9], minute [0-5]\d|\d, then am
\* or pm.  The 24-hour value in minutes, or -1 (ValueError).
ParseIMp(s) ==
    LET n == Len(s)
    IN  IF n < 5 THEN -1
        ELSE LET mer == SubSeq(s, n - 1, n)
                 hm == SubSeq(s, 1, n - 2)
                 t == ParseHM(hm)
             IN  IF /\ mer \in {<<"a", "m">>, <<"p", "m">>}
                    /\ t >= 0
                    /\ (t \div 60) \in 1..12
                 THEN 60 * (((t \div 60) % 12) + (IF mer = <<"p", "m">> THEN 12 ELSE 0))
                      + (t % 60)
                 ELSE -1

\* int(s) for a string of decimal digits; -1 (ValueError) for anything else the
\* model's alphabet can spell.
RECURSIVE DigitsValue(_)
DigitsValue(s) ==
    IF s = <<>> THEN 0
    ELSE 10 * DigitsValue(SubSeq(s, 1, Len(s) - 1)) + DigitVal(s[Len(s)])

ParseInt(s) ==
    IF s # <<>> /\ \A i \in 1..Len(s) : IsDigit(s[i]) THEN DigitsValue(s) ELSE -1

\* normalize_time: time_str is reassigned along the way, and what is returned
\* "as-is" is the reassigned string.
normalize_time(raw) ==
    LET s1 == Strip(Lower(raw))
        meridiem == Contains(s1, <<"a", "m">>) \/ Contains(s1, <<"p", "m">>)
        s2 == Replace(s1, <<" ">>, <<>>)
        s3 == IF Contains(s2, <<":">>) THEN s2
              ELSE Replace(Replace(s2, <<"a", "m">>, <<":", "0", "0", "a", "m">>),
                           <<"p", "m">>, <<":", "0", "0", "p", "m">>)
        s == IF meridiem THEN s3 ELSE s1
        hour == ParseInt(s)
    IN  IF meridiem /\ ParseIMp(s3) >= 0 THEN FormatHM(ParseIMp(s3))
        ELSE IF ParseHM(s) >= 0 THEN s
        ELSE IF hour >= 9 /\ hour <= 17
             THEN <<DigitChars[(hour \div 10) + 1], DigitChars[(hour % 10) + 1], ":", "0", "0">>
        ELSE s

\* -------------------------------------------------------------------- dates
DateForms == {"iso", "unpadded", "ws", "other"}

\* strptime(d, '%Y-%m-%d'): the day, or -1 (ValueError).  One- and two-digit
\* months and days both match; blanks around the text do not.
ParseDate(d) == IF d.form \in {"iso", "unpadded"} THEN d.day ELSE -1

\* str.strip() of a date text.
StripDate(d) == IF d.form = "ws" THEN [form |-> "iso", day |-> d.day] ELSE d

\* The rule with its first range one day short: "4 <= day < 20".
OrdinalSuffixShortRange(day) ==
    IF (4 <= day /\ day < 20) \/ (24 <= day /\ day <= 30) THEN "th"
    ELSE LET i == (day % 10) - 1
         IN  IF i \in 0..2 THEN <<"st", "nd", "rd">>[i + 1]
             ELSE IF i = -1 THEN "rd"
             ELSE "IndexError"

\* The ordinal suffix rule of format_date_user_friendly and
\* get_current_datetime_context; a list index of -1 is Python's last element.
OrdinalSuffix(day) ==
    IF (4 <= day /\ day <= 20) \/ (24 <= day /\ day <= 30) THEN "th"
    ELSE LET i == (day % 10) - 1
         IN  IF i \in 0..2 THEN <<"st", "nd", "rd">>[i + 1]
             ELSE IF i = -1 THEN "rd"
             ELSE "IndexError"

\* DateUtility.format_date_user_friendly: weekday, month and year are those of
\* the model's one month and are left out of the rendering.
format_date_user_friendly(d) ==
    IF ParseDate(d) >= 0
    THEN [form |-> "friendly", day |-> ParseDate(d), suffix |-> OrdinalSuffix(ParseDate(d))]
    ELSE d

\* get_current_datetime_context: the day and its suffix in the sentence, for
\* the day of month `now' falls on.
get_current_datetime_context(day) == [day |-> day, suffix |-> OrdinalSuffix(day)]

\* ----------------------------------------------------------------- calendar
BusinessStart == 60 * BusinessStartHour
BusinessEnd == 60 * BusinessEndHour

\* The overlap test with closed intervals: touching counts as overlap.
OverlapsClosed(slotStart, slotEnd, eventStart, eventEnd) ==
    slotStart <= eventEnd /\ slotEnd >= eventStart

\* The overlap test of get_available_slots (line 142).
Overlaps(slotStart, slotEnd, eventStart, eventEnd) ==
    slotStart < eventEnd /\ slotEnd > eventStart

\* The loop condition on the slot's start instead of its end.
SlotStartsInHours(currentTime, duration) == currentTime <= BusinessEnd

\* The loop condition of get_available_slots (line 128).
SlotFits(currentTime, duration) == currentTime + duration <= BusinessEnd

\* The while loop of get_available_slots, from current_time on.
RECURSIVE SlotsFrom(_, _, _)
SlotsFrom(currentTime, duration, events) ==
    IF SlotFits(currentTime, duration)
    THEN (IF \E e \in events : Overlaps(currentTime, currentTime + duration, e.start, e.end)
          THEN <<>>
          ELSE <<FormatHM(currentTime)>>)
         \o SlotsFrom(currentTime + StepMinutes, duration, events)
    ELSE <<>>

\* CalendarManager.get_available_slots.  `listOk' is whether events().list()
\* returns, `events' what it returns.  Any exception, the date's ValueError
\* included, ends in `return []'.
get_available_slots(dateStr, duration, listOk, events) ==
    IF ParseDate(dateStr) < 0 THEN <<>>
    ELSE IF ~listOk THEN <<>>
    ELSE SlotsFrom(BusinessStart, duration, events)

\* The backend's events of one day, as events().list() returns them.
\* The listing with only the events that start within the business hours.
EventsOnStartingInHours(cal, day) ==
    {[start |-> e.start, end |-> e.end] :
        e \in {x \in cal : x.day = day /\ x.start >= BusinessStart /\ x.start < BusinessEnd}}

EventsOn(cal, day) == {[start |-> e.start, end |-> e.end] : e \in {x \in cal : x.day = day}}

\* strptime(f"{date_str} {time_str}", '%Y-%m-%d %H:%M'): the blank of the format
\* takes any run of blanks, so blanks before the time are accepted and blanks
\* before the date or after the time are not.
\* The same parse with the time passed through normalize_time first.
ParseDateTimeNormalized(dateStr, timeStr) ==
    IF dateStr.form \in {"iso", "unpadded"} /\ ParseHM(LStrip(normalize_time(timeStr))) >= 0
    THEN [day |-> dateStr.day, start |-> ParseHM(LStrip(normalize_time(timeStr)))]
    ELSE [day |-> -1, start |-> -1]

ParseDateTime(dateStr, timeStr) ==
    IF dateStr.form \in {"iso", "unpadded"} /\ ParseHM(LStrip(timeStr)) >= 0
    THEN [day |-> dateStr.day, start |-> ParseHM(LStrip(timeStr))]
    ELSE [day |-> -1, start |-> -1]

NoRequest == [day |-> -1, start |-> -1, end |-> -1, email |-> None, name |-> None,
              description |-> <<>>]

\* The email check of CalendarManager.schedule_appointment (line 169).
\* The check as `patient_email is None': the empty text passes.
SchedulerRejectsNoneOnly(patientEmail) == patientEmail = None

SchedulerRejectsEmail(patientEmail) == Falsy(patientEmail)

\* CalendarManager.schedule_appointment.  `insertOk' is whether the backend's
\* events().insert() returns; when it raises, the except clause returns False.
\* The result: success, whether insert was called, and the event it created.
schedule_appointment(dateStr, timeStr, patientName, patientEmail, duration, description, insertOk) ==
    LET at == ParseDateTime(dateStr, timeStr)
        request == [day |-> at.day, start |-> at.start, end |-> at.start + duration,
                    email |-> patientEmail, name |-> patientName,
                    description |-> description]
    IN  IF at.day < 0
        THEN [success |-> FALSE, called |-> FALSE, request |-> NoRequest, escaped |-> FALSE]
        ELSE IF SchedulerRejectsEmail(patientEmail)
        THEN [success |-> FALSE, called |-> FALSE, request |-> NoRequest, escaped |-> FALSE]
        ELSE IF insertOk
        THEN [success |-> TRUE, called |-> TRUE, request |-> request, escaped |-> FALSE]
        ELSE [success |-> FALSE, called |-> TRUE, request |-> request, escaped |-> FALSE]

\* ------------------------------------------------------------- flow_config
\* The flow entered at the node after the first.
initial_node_after_first == "get_prescriptions"

initial_node == "collect_info"

\* flow_config["nodes"][n]["functions"]: the function names, in order.  The end
\* node has no "functions" key.
NodeFunctions ==
    [collect_info           |-> <<"collect_patient_info">>,
     get_prescriptions      |-> <<"record_prescriptions">>,
     get_allergies          |-> <<"record_allergies">>,
     get_conditions         |-> <<"record_conditions">>,
     get_visit_reasons      |-> <<"record_visit_reasons">>,
     verify                 |-> <<"revise_information", "confirm_information">>,
     confirm                |-> <<"complete_intake">>,
     schedule_date          |-> <<"get_current_date", "check_availability">>,
     schedule_time          |-> <<"schedule_appointment_handler">>,
     reschedule_appointment |-> <<"reschedule_appointment">>,
     confirm_appointment    |-> <<"confirm_final_appointment">>,
     end                    |-> <<>>]

Nodes == DOMAIN NodeFunctions

FunctionNames(node) == {NodeFunctions[node][i] : i \in 1..Len(NodeFunctions[node])}

AllFunctions == UNION {FunctionNames(n) : n \in Nodes}

\* The schema of schedule_appointment_handler with email left out of
\* "required".
RequiredParamsEmailOptional(fn) ==
    CASE fn = "collect_patient_info" -> {"name", "birthday"}
      [] fn = "record_prescriptions" -> {"prescriptions"}
      [] fn = "record_allergies" -> {"allergies"}
      [] fn = "record_conditions" -> {"conditions"}
      [] fn = "record_visit_reasons" -> {"visit_reasons"}
      [] fn = "check_availability" -> {"date"}
      [] fn = "schedule_appointment_handler" -> {"date", "time"}
      [] OTHER -> {}

\* The "required" list of each function's parameter schema.
RequiredParams(fn) ==
    CASE fn = "collect_patient_info" -> {"name", "birthday"}
      [] fn = "record_prescriptions" -> {"prescriptions"}
      [] fn = "record_allergies" -> {"allergies"}
      [] fn = "record_conditions" -> {"conditions"}
      [] fn = "record_visit_reasons" -> {"visit_reasons"}
      [] fn = "check_availability" -> {"date"}
      [] fn = "schedule_appointment_handler" -> {"date", "time", "email"}
      [] OTHER -> {}

\* role_messages then task_messages of a node, as tags.
NodeMessages(node) ==
    (IF node \in {"collect_info", "schedule_date"} THEN <<<<node, "role">>>> ELSE <<>>)
    \o <<<<node, "task">>>>

\* The reset-with-summary strategy on the confirm node as well.
NodeContextStrategyAlsoConfirm(node) ==
    IF node \in {"verify", "confirm"} THEN "RESET_WITH_SUMMARY" ELSE None

\* "context_strategy" of a node.
NodeContextStrategy(node) == IF node = "verify" THEN "RESET_WITH_SUMMARY" ELSE None

\* The end-of-conversation action also on the node before the last.
NodePostActionsBeforeEnd(node) ==
    IF node \in {"confirm_appointment", "end"} THEN {"end_conversation"} ELSE {}

\* "post_actions" of a node.
NodePostActions(node) == IF node = "end" THEN {"end_conversation"} ELSE {}

\* ---------------------------------------------------------------- handlers
\* A handler returns (result, next node) or raises; check_availability and
\* schedule_appointment_handler also report what they asked of the backend.
NoResult == [type |-> None]

NoSched == [success |-> FALSE, called |-> FALSE, request |-> NoRequest, escaped |-> FALSE]

Returned(result, next) ==
    [raised |-> None, msg |-> "", result |-> result, next |-> next,
     listCalled |-> FALSE, sched |-> NoSched]

Raised(error, msg) ==
    [raised |-> error, msg |-> msg, result |-> NoResult, next |-> None,
     listCalled |-> FALSE, sched |-> NoSched]

\* args.get(key, default)
Get(args, key, default) == IF key \in DOMAIN args THEN args[key] ELSE default

\* The validation of collect_patient_info (line 324), on the stripped name.
\* The validation without its length test: only the empty name is refused.
NameEmptyOnly(name) == name = <<>>

NameTooShort(name) == name = <<>> \/ Len(name) < MinNameLen

collect_patient_info(args) ==
    LET name == Strip(args.name)
    IN  IF NameTooShort(name)
        THEN Raised("ValueError", "Name must be at least 2 characters long")
        ELSE Returned([type |-> "PatientInfoResult", name |-> name,
                       birthday |-> args.birthday], "get_prescriptions")

record_prescriptions(args) ==
    Returned([type |-> "PrescriptionRecordResult", count |-> Len(args.prescriptions)],
             "get_allergies")

\* The handler skipping the conditions step.
record_allergies_to_visit_reasons(args) ==
    Returned([type |-> "AllergyRecordResult", count |-> Len(args.allergies)],
             "get_visit_reasons")

record_allergies(args) ==
    Returned([type |-> "AllergyRecordResult", count |-> Len(args.allergies)],
             "get_conditions")

record_conditions(args) ==
    Returned([type |-> "ConditionRecordResult", count |-> Len(args.conditions)],
             "get_visit_reasons")

\* The handler returning the name the doc comment gives the verify step.
record_visit_reasons_to_verify_information(args) ==
    Returned([type |-> "VisitReasonRecordResult", count |-> Len(args.visit_reasons)],
             "verify_information")

record_visit_reasons(args) ==
    Returned([type |-> "VisitReasonRecordResult", count |-> Len(args.visit_reasons)],
             "verify")

\* The handler restarting the whole intake, at the first node.
revise_information_to_collect_info(args) == Returned(NoResult, "collect_info")

revise_information(args) == Returned(NoResult, "get_prescriptions")

\* The confirmation leading straight to the scheduling.
confirm_information_to_schedule_date(args) == Returned(NoResult, "schedule_date")

confirm_information(args) == Returned(NoResult, "confirm")

\* The completion of the intake leading back to the verification.
complete_intake_to_verify(args) == Returned(NoResult, "verify")

complete_intake(args) == Returned(NoResult, "schedule_date")

\* env.today is datetime.date.today() at the time of the call.
get_current_date(args, env) ==
    Returned([type |-> "DateInfoResult", current_date_iso |-> env.today], "schedule_date")

\* The promotion without its remove: insert(0, x) alone.
InsertAtFront(slots, x) == <<x>> \o slots

\* available_slots.remove(x); available_slots.insert(0, x)
MoveToFront(slots, x) ==
    LET i == CHOOSE k \in 1..Len(slots) : slots[k] = x /\ \A j \in 1..(k - 1) : slots[j] # x
    IN  <<x>> \o SubSeq(slots, 1, i - 1) \o SubSeq(slots, i + 1, Len(slots))

InSeq(x, s) == \E i \in 1..Len(s) : s[i] = x

\* The future-date test of check_availability (line 402).
NotInFuture(requested, today) == requested <= today

\* env.listOk: whether events().list() returns; env.cal: the backend's events.
check_availability(args, env) ==
    LET date == StripDate(args.date)
        preferred == Strip(Get(args, "preferred_time", <<>>))
        slots == get_available_slots(date, DefaultDuration, env.listOk,
                                     EventsOn(env.cal, ParseDate(date)))
        normalized == normalize_time(preferred)
        promoted == IF preferred # <<>> /\ InSeq(normalized, slots)
                    THEN MoveToFront(slots, normalized)
                    ELSE slots
    IN  IF ParseDate(date) < 0
        THEN Raised("ValueError", "Date must be in YYYY-MM-DD format")
        ELSE IF NotInFuture(ParseDate(date), env.today)
        THEN Raised("ValueError", "Please select a future date")
        ELSE [Returned([type |-> "DateCheckResult", date |-> date,
                        date_formatted |-> format_date_user_friendly(date),
                        available_slots |-> promoted,
                        preferred_time |-> preferred], "schedule_time")
              EXCEPT !.listCalled = TRUE]

\* The description's list of reasons: each reason's name, or the fallback.
ReasonsText(visitReasons) ==
    IF visitReasons # <<>>
    THEN [i \in 1..Len(visitReasons) |-> visitReasons[i].name]
    ELSE <<"General consultation">>

\* The email check of schedule_appointment_handler (line 436).
HandlerRejectsEmail(patientEmail) == Falsy(patientEmail)

\* The next node schedule_appointment_handler returns (lines 457-470).
\* The handler treating every outcome of the scheduler as a booking.
NextAlwaysConfirm(success) == "confirm_appointment"

NextAfterScheduling(success) ==
    IF success THEN "confirm_appointment" ELSE "reschedule_appointment"

\* env.insertOk: whether events().insert() returns.
schedule_appointment_handler(args, env) ==
    LET date == args.date
        time == args.time
        patientEmail == args.email
        patientName == Get(args, "patient_name", "Patient")
        visitReasons == Get(args, "visit_reasons", <<[name |-> "General consultation"]>>)
        sched == schedule_appointment(date, time, patientName, patientEmail,
                                      DefaultDuration,
                                      <<"Reason for visit: ", ReasonsText(visitReasons)>>,
                                      env.insertOk)
    IN  IF HandlerRejectsEmail(patientEmail)
        THEN Raised("ValueError",
                    "Patient email is required to schedule appointment and send calendar invitation")
        ELSE IF sched.escaped
        THEN [Raised("Exception", "calendar backend") EXCEPT !.sched = sched]
        ELSE [Returned([type |-> "AppointmentScheduleResult", scheduled |-> sched.success,
                        appointment_date |-> date,
                        appointment_date_formatted |-> format_date_user_friendly(date),
                        appointment_time |-> time],
                       NextAfterScheduling(sched.success))
              EXCEPT !.sched = sched]

\* The way back from a refused booking leading on to the confirmation.
reschedule_appointment_to_confirm(args) == Returned(NoResult, "confirm_appointment")

reschedule_appointment(args) == Returned(NoResult, "schedule_date")

\* The final confirmation staying at its node.
confirm_final_appointment_stays(args) == Returned(NoResult, "confirm_appointment")

confirm_final_appointment(args) == Returned(NoResult, "end")

\* The keys each handler reads with args[...]: a missing one is a KeyError.
IndexedKeys(fn) ==
    CASE fn = "collect_patient_info" -> {"name", "birthday"}
      [] fn = "record_prescriptions" -> {"prescriptions"}
      [] fn = "record_allergies" -> {"allergies"}
      [] fn = "record_conditions" -> {"conditions"}
      [] fn = "record_visit_reasons" -> {"visit_reasons"}
      [] fn = "check_availability" -> {"date"}
      [] fn = "schedule_appointment_handler" -> {"date", "time", "email"}
      [] OTHER -> {}

\* The "handler" entry of each function of flow_config.
Handler(fn, args, env) ==
    IF IndexedKeys(fn) \ DOMAIN args # {} THEN Raised("KeyError", "missing key")
    ELSE
    CASE fn = "collect_patient_info" -> collect_patient_info(args)
      [] fn = "record_prescriptions" -> record_prescriptions(args)
      [] fn = "record_allergies" -> record_allergies(args)
      [] fn = "record_conditions" -> record_conditions(args)
      [] fn = "record_visit_reasons" -> record_visit_reasons(args)
      [] fn = "revise_information" -> revise_information(args)
      [] fn = "confirm_information" -> confirm_information(args)
      [] fn = "complete_intake" -> complete_intake(args)
      [] fn = "get_current_date" -> get_current_date(args, env)
      [] fn = "check_availability" -> check_availability(args, env)
      [] fn = "schedule_appointment_handler" -> schedule_appointment_handler(args, env)
      [] fn = "reschedule_appointment" -> reschedule_appointment(args)
      [] fn = "confirm_final_appointment" -> confirm_final_appointment(args)

\* -------------------------------------------------------------------- state
VARIABLES
    current,      \* the session's current node, None before initialize
    facts,        \* collected facts: result type -> the last result of that type
    history,      \* the session's message history
    ended,        \* the end-of-conversation signal was produced
    last,         \* the last call of the engine, its outcome and its backend calls
    today,        \* datetime.date.today()
    calendar,     \* the calendar backend's events: [day, start, end, email]
    harness       \* a direct call of a calendar function: its inputs and result

vars == <<current, facts, history, ended, last, today, calendar, harness>>

session == <<current, facts, history, ended>>

FactKeys == {"PatientInfoResult", "PrescriptionRecordResult", "AllergyRecordResult",
             "ConditionRecordResult", "VisitReasonRecordResult", "DateInfoResult",
             "DateCheckResult", "AppointmentScheduleResult"}

NoArgs == [k \in {} |-> None]

\* fn, kind, error, msg: the call and its outcome; from: the node it was made in;
\* retry: the call before it was a failed call of the same function;
\* listCalls, insertCalls, request: what it asked of the backend.
\* events: what the call emitted and executed on entering a node, in order.
NoCall == [fn |-> None, kind |-> None, error |-> None, msg |-> "", from |-> None,
           retry |-> FALSE, listCalls |-> 0, insertCalls |-> 0, request |-> NoRequest,
           events |-> <<>>]

\* ------------------------------------------------------------------- inputs
NameInputs == {<<>>, <<" ", "J", " ">>, <<"J", "o">>, <<" ", "J", "o", " ">>}

EmailInputs == {"", "jane@example.com"}

T0900 == <<"0", "9", ":", "0", "0">>
T0930 == <<"0", "9", ":", "3", "0">>
T2pm == <<"2", "p", "m">>

Iso(d) == [form |-> "iso", day |-> d]

\* Dates a caller asks for: every day in plain form, the last day in the others.
DateInputs ==
    {Iso(d) : d \in 1..MaxDay}
        \cup {[form |-> f, day |-> MaxDay] : f \in {"unpadded", "ws", "other"}}

RECURSIVE ListsUpTo(_, _)
ListsUpTo(item, n) ==
    IF n = 0 THEN {<<>>} ELSE {<<>>} \cup {<<item>> \o l : l \in ListsUpTo(item, n - 1)}

ListInputs == ListsUpTo([name |-> "x"], MaxList)

\* The argument objects a caller passes to each function.
ArgsFor(fn) ==
    CASE fn = "collect_patient_info" ->
            {[name |-> n, birthday |-> "1990-01-01"] : n \in NameInputs}
                \cup {[name |-> <<"J", "o">>]}
      [] fn = "record_prescriptions" -> {[prescriptions |-> l] : l \in ListInputs}
      [] fn = "record_allergies" -> {[allergies |-> l] : l \in ListInputs}
      [] fn = "record_conditions" -> {[conditions |-> l] : l \in ListInputs}
      [] fn = "record_visit_reasons" -> {[visit_reasons |-> l] : l \in ListInputs}
      [] fn = "check_availability" ->
            {[date |-> d] : d \in DateInputs}
                \cup {[date |-> Iso(MaxDay), preferred_time |-> T0930],
                      [preferred_time |-> T0930]}
      [] fn = "schedule_appointment_handler" ->
            {[date |-> Iso(MaxDay), time |-> t, email |-> e] :
                t \in {T0900, T2pm}, e \in EmailInputs}
                \cup {[date |-> [form |-> "ws", day |-> MaxDay], time |-> T0900,
                       email |-> "jane@example.com"]}
                \cup {[date |-> Iso(MaxDay), time |-> T0900,
                       email |-> "jane@example.com", patient_name |-> "Jo",
                       visit_reasons |-> <<[name |-> "checkup"]>>],
                      [date |-> Iso(MaxDay), time |-> T0900]}
      [] OTHER -> {NoArgs}

\* The names a caller tries where they are not legal: functions of the first, a
\* middle and the last nodes of the flow, and a name of no function.
IllegalProbes == {"collect_patient_info", "check_availability",
                  "schedule_appointment_handler", "confirm_final_appointment",
                  "no_such_function"}

\* The backend answers a handler can meet: only the handlers that call it differ.
ListAnswers(fn) == IF fn = "check_availability" THEN BOOLEAN ELSE {TRUE}
InsertAnswers(fn) == IF fn = "schedule_appointment_handler" THEN BOOLEAN ELSE {TRUE}

\* ------------------------------------------------------------------- engine
\* The legal call set: the current node's functions, none before initialize.
LegalFunctions(node) == IF node = None THEN {} ELSE FunctionNames(node)

\* A registry that looks a name up in the whole flow, not in the current node.
IsLegalInAnyNode(node, fn) == node # None /\ fn \in AllFunctions

IsLegal(node, fn) == fn \in LegalFunctions(node)

MissingParams(fn, args) == RequiredParams(fn) \ DOMAIN args

\* (a) the result's fields are recorded under its type's key.
Record(fs, result) ==
    IF result.type = None THEN fs ELSE [fs EXCEPT ![result.type] = result]

\* (b) reset-with-summary, then (d) the new node's messages.
HistoryAfter(h, from, to) ==
    (IF NodeContextStrategy(from) = "RESET_WITH_SUMMARY" THEN <<<<from, "summary">>>> ELSE h)
    \o NodeMessages(to)

\* (d) then (e): the new node's messages are emitted, then its post-actions
\* are executed.
EntryEvents(to) ==
    NodeMessages(to)
    \o (IF "end_conversation" \in NodePostActions(to)
        THEN <<<<to, "end_conversation">>>> ELSE <<>>)

Outcome(fn, kind, error, msg) ==
    [NoCall EXCEPT !.fn = fn, !.kind = kind, !.error = error, !.msg = msg,
                   !.from = current,
                   !.retry = (last.fn = fn /\ last.kind = "HandlerFailure")]

\* What the handler's backend calls leave in the backend and in the call's record.
WithBackendCalls(call, r) ==
    [call EXCEPT !.listCalls = IF r.listCalled THEN 1 ELSE 0,
                 !.insertCalls = IF r.sched.called THEN 1 ELSE 0,
                 !.request = r.sched.request]

CalendarAfter(cal, r) ==
    IF r.sched.called /\ r.sched.success
    THEN cal \cup {[day |-> r.sched.request.day, start |-> r.sched.request.start,
                    end |-> r.sched.request.end, email |-> r.sched.request.email]}
    ELSE cal

initialize ==
    /\ IF current = None
       THEN /\ current' = initial_node
            /\ history' = NodeMessages(initial_node)
            /\ last' = [Outcome("initialize", "ok", None, "")
                            EXCEPT !.events = EntryEvents(initial_node)]
            /\ UNCHANGED <<facts, ended>>
       ELSE /\ last' = Outcome("initialize", "AlreadyInitializedError", None, "")
            /\ UNCHANGED session
    /\ UNCHANGED <<today, calendar, harness>>

\* invoke(name, args) where name is legal in the current node.
dispatch(fn, args, listOk, insertOk) ==
    LET env == [today |-> today, cal |-> calendar, listOk |-> listOk, insertOk |-> insertOk]
    IN  IF MissingParams(fn, args) # {}
        THEN /\ last' = Outcome(fn, "SchemaValidationError", None, "")
             /\ UNCHANGED <<session, calendar>>
        ELSE \E r \in {Handler(fn, args, env)} :
        IF r.raised # None
        THEN /\ last' = WithBackendCalls(Outcome(fn, "HandlerFailure", r.raised, r.msg), r)
             /\ calendar' = CalendarAfter(calendar, r)
             /\ UNCHANGED session
        ELSE IF r.next \notin Nodes
        THEN /\ last' = WithBackendCalls(Outcome(fn, "UndefinedNodeError", None, r.next), r)
             /\ calendar' = CalendarAfter(calendar, r)
             /\ UNCHANGED session
        ELSE /\ Len(HistoryAfter(history, current, r.next)) <= MaxHistory
             /\ facts' = Record(facts, r.result)
             /\ history' = HistoryAfter(history, current, r.next)
             /\ current' = r.next
             /\ ended' = ("end_conversation" \in NodePostActions(r.next))
             /\ last' = [WithBackendCalls(Outcome(fn, "ok", None, ""), r)
                             EXCEPT !.events = EntryEvents(r.next)]
             /\ calendar' = CalendarAfter(calendar, r)

invoke(fn, args, listOk, insertOk) ==
    /\ UNCHANGED <<today, harness>>
    /\ IF ~IsLegal(current, fn)
       THEN /\ last' = Outcome(fn, "IllegalFunctionError", None, "")
            /\ UNCHANGED <<session, calendar>>
       ELSE dispatch(fn, args, listOk, insertOk)

Invoke ==
    \/ \E fn \in IllegalProbes \ LegalFunctions(current) :
            invoke(fn, NoArgs, TRUE, TRUE)
    \/ \E fn \in LegalFunctions(current) :
            \E args \in ArgsFor(fn) :
                \E listOk \in ListAnswers(fn), insertOk \in InsertAnswers(fn) :
                    invoke(fn, args, listOk, insertOk)

\* The backend's calendar when the process starts: the first slot of the last
\* day is taken.
InitCalendar ==
    {[day |-> MaxDay, start |-> BusinessStart, end |-> BusinessStart + 30,
      email |-> "other@example.com"]}

NoHarness == [done |-> FALSE]

\* The process after start-up: flow_config loaded, no session initialized.
Started ==
    /\ current = None
    /\ facts = [k \in FactKeys |-> NoResult]
    /\ history = <<>>
    /\ ended = FALSE
    /\ last = NoCall
    /\ today = Today
    /\ calendar = InitCalendar

Init == Started /\ harness = NoHarness

Next == initialize \/ Invoke

Spec == Init /\ [][Next]_vars

\* ------------------------------------------- participant leaves mid-session
\* bot-openai.py runs the session on one event loop: the handlers are
\* coroutines without an await, so a handler's backend call
\* (service.events()...execute()) holds the loop until it returns, and
\* on_participant_left runs when the loop is free.
NoFlight == [fn |-> None, args |-> NoArgs]

Attended == [done |-> FALSE, inflight |-> NoFlight, left |-> FALSE, cancelled |-> FALSE]

BackendFunctions == {"check_availability", "schedule_appointment_handler"}

\* The handler reaches a call of the calendar backend with these arguments.
CallsBackend(fn, args) ==
    /\ fn \in BackendFunctions
    /\ MissingParams(fn, args) = {}
    /\ \E r \in {Handler(fn, args, [today |-> today, cal |-> calendar,
                                    listOk |-> TRUE, insertOk |-> TRUE])} :
            r.listCalled \/ r.sched.called

TeardownInit == Started /\ harness = Attended

Join ==
    /\ harness.inflight = NoFlight
    /\ ~harness.cancelled
    /\ initialize

\* A call that the loop runs through without reaching the backend.
Step ==
    /\ harness.inflight = NoFlight
    /\ ~harness.cancelled
    /\ \E fn \in LegalFunctions(current) : \E args \in ArgsFor(fn) :
            /\ ~CallsBackend(fn, args)
            /\ invoke(fn, args, TRUE, TRUE)

\* The handler has entered calendar_manager's blocking request.
CallBackend ==
    /\ harness.inflight = NoFlight
    /\ ~harness.cancelled
    /\ \E fn \in LegalFunctions(current) : \E args \in ArgsFor(fn) :
            /\ CallsBackend(fn, args)
            /\ harness' = [harness EXCEPT !.inflight = [fn |-> fn, args |-> args]]
    /\ UNCHANGED <<session, last, today, calendar>>

\* The request returns (or raises); the handler returns its result and the
\* engine applies it.
BackendReturns ==
    /\ harness.inflight # NoFlight
    /\ \E listOk \in ListAnswers(harness.inflight.fn),
          insertOk \in InsertAnswers(harness.inflight.fn) :
            dispatch(harness.inflight.fn, harness.inflight.args, listOk, insertOk)
    /\ harness' = [harness EXCEPT !.inflight = NoFlight]
    /\ today' = today

\* The participant disconnects: the transport queues on_participant_left.
ParticipantLeft ==
    /\ ~harness.left
    /\ harness' = [harness EXCEPT !.left = TRUE]
    /\ UNCHANGED <<session, last, today, calendar>>

\* on_participant_left: task.cancel().
on_participant_left ==
    /\ harness.left
    /\ ~harness.cancelled
    /\ harness.inflight = NoFlight
    /\ harness' = [harness EXCEPT !.cancelled = TRUE]
    /\ UNCHANGED <<session, last, today, calendar>>

TeardownNext ==
    Join \/ Step \/ CallBackend \/ BackendReturns \/ ParticipantLeft \/ on_participant_left

SpecTeardown == TeardownInit /\ [][TeardownNext]_vars

\* ------------------------------------------------- two sessions, one backend
\* Two participants, each with a FlowManager of their own over the same
\* calendar.  The variables of the session hold the session whose call is being
\* served; the other session waits in harness.parked.
SessionEmail == <<"jane@example.com", "joe@example.com">>

Parked == [current |-> None, facts |-> [k \in FactKeys |-> NoResult], history |-> <<>>,
           ended |-> FALSE, last |-> NoCall]

\* What each patient answers: the same free slot of the last day.
TwoSessionArgs(fn, who) ==
    CASE fn = "collect_patient_info" -> [name |-> <<"J", "o">>, birthday |-> "1990-01-01"]
      [] fn = "record_prescriptions" -> [prescriptions |-> <<>>]
      [] fn = "record_allergies" -> [allergies |-> <<>>]
      [] fn = "record_conditions" -> [conditions |-> <<>>]
      [] fn = "record_visit_reasons" -> [visit_reasons |-> <<[name |-> "x"]>>]
      [] fn = "check_availability" -> [date |-> Iso(MaxDay)]
      [] fn = "schedule_appointment_handler" ->
            [date |-> Iso(MaxDay), time |-> T0930, email |-> SessionEmail[who]]
      [] OTHER -> NoArgs

TwoSessionsInit ==
    /\ Started
    /\ harness = [done |-> FALSE, active |-> 1, parked |-> Parked]

SessionJoins ==
    /\ current = None
    /\ initialize

SessionCalls ==
    \E fn \in LegalFunctions(current) :
        invoke(fn, TwoSessionArgs(fn, harness.active), TRUE, TRUE)

\* The next call served is the other session's.
SwitchSession ==
    /\ current' = harness.parked.current
    /\ facts' = harness.parked.facts
    /\ history' = harness.parked.history
    /\ ended' = harness.parked.ended
    /\ last' = harness.parked.last
    /\ harness' = [harness EXCEPT
                      !.active = 3 - harness.active,
                      !.parked = [current |-> current, facts |-> facts, history |-> history,
                                  ended |-> ended, last |-> last]]
    /\ UNCHANGED <<today, calendar>>

TwoSessionsNext == SessionJoins \/ SessionCalls \/ SwitchSession

SpecTwoSessions == TwoSessionsInit /\ [][TwoSessionsNext]_vars

\* ------------------------------------------------ a session that is carried on
\* A session whose caller goes on issuing legal invocations.  The revise and
\* the reschedule loops may repeat any number of times, so the message history
\* is kept as its last MaxHistory messages; everything else is as in dispatch.
LastMessages(h) ==
    IF Len(h) > MaxHistory THEN SubSeq(h, Len(h) - MaxHistory + 1, Len(h)) ELSE h

\* What the caller passes: for the functions that can refuse, one set of
\* arguments that is accepted and one that is not.
LiveArgs(fn) ==
    CASE fn = "collect_patient_info" ->
            {[name |-> n, birthday |-> "1990-01-01"] : n \in {<<"J", "o">>, <<>>}}
      [] fn = "record_prescriptions" -> {[prescriptions |-> <<>>]}
      [] fn = "record_allergies" -> {[allergies |-> <<>>]}
      [] fn = "record_conditions" -> {[conditions |-> <<>>]}
      [] fn = "record_visit_reasons" -> {[visit_reasons |-> <<[name |-> "x"]>>]}
      [] fn = "check_availability" -> {[date |-> Iso(d)] : d \in {Today, MaxDay}}
      [] fn = "schedule_appointment_handler" ->
            {[date |-> Iso(MaxDay), time |-> t, email |-> "jane@example.com"] :
                t \in {T0930, T2pm}}
      [] OTHER -> {NoArgs}

LiveDispatch(fn, args, listOk, insertOk) ==
    LET env == [today |-> today, cal |-> calendar, listOk |-> listOk, insertOk |-> insertOk]
    IN  IF MissingParams(fn, args) # {}
        THEN /\ last' = Outcome(fn, "SchemaValidationError", None, "")
             /\ UNCHANGED <<session, calendar>>
        ELSE \E r \in {Handler(fn, args, env)} :
        IF r.raised # None
        THEN /\ last' = WithBackendCalls(Outcome(fn, "HandlerFailure", r.raised, r.msg), r)
             /\ calendar' = CalendarAfter(calendar, r)
             /\ UNCHANGED session
        ELSE IF r.next \notin Nodes
        THEN /\ last' = WithBackendCalls(Outcome(fn, "UndefinedNodeError", None, r.next), r)
             /\ calendar' = CalendarAfter(calendar, r)
             /\ UNCHANGED session
        ELSE /\ facts' = Record(facts, r.result)
             /\ history' = LastMessages(HistoryAfter(history, current, r.next))
             /\ current' = r.next
             /\ ended' = ("end_conversation" \in NodePostActions(r.next))
             /\ last' = [WithBackendCalls(Outcome(fn, "ok", None, ""), r)
                             EXCEPT !.events = EntryEvents(r.next)]
             /\ calendar' = CalendarAfter(calendar, r)

LiveInvoke ==
    /\ UNCHANGED <<today, harness>>
    /\ \E fn \in LegalFunctions(current) : \E args \in LiveArgs(fn) :
          \E listOk \in ListAnswers(fn), insertOk \in InsertAnswers(fn) :
              LiveDispatch(fn, args, listOk, insertOk)

LiveNext == initialize \/ LiveInvoke

\* The node the session goes on to when the caller's answer is accepted and,
\* at verify, the patient confirms.
Onward(node) ==
    CASE node = "collect_info" -> "get_prescriptions"
      [] node = "get_prescriptions" -> "get_allergies"
      [] node = "get_allergies" -> "get_conditions"
      [] node = "get_conditions" -> "get_visit_reasons"
      [] node = "get_visit_reasons" -> "verify"
      [] node = "verify" -> "confirm"
      [] node = "confirm" -> "schedule_date"
      [] node = "schedule_date" -> "schedule_time"
      [] node = "schedule_time" -> "confirm_appointment"
      [] node = "reschedule_appointment" -> "schedule_date"
      [] node = "confirm_appointment" -> "end"
      [] OTHER -> None

\* The caller's call at a node that takes the session onward.
Advance(node) ==
    /\ current = node
    /\ LiveInvoke
    /\ current' = Onward(node)

\* The caller does not stay for ever with the calls that keep or take back the
\* session: at each node, the call that goes onward is made in the end.
SpecLive ==
    /\ Init
    /\ [][LiveNext]_vars
    /\ \A node \in Nodes \ {"end"} : SF_vars(Advance(node))

\* The caller goes on calling, with no more said about which calls.
SpecLiveAnyCalls == Init /\ [][LiveNext]_vars /\ WF_vars(LiveNext)

\* --------------------------------------------- get_available_slots, directly
\* Busy intervals [start, end) of the day asked for, on a quarter-hour grid
\* around the start and the end of business hours.
BusyPoints == {525, 540, 555, 570, 585, 600, 990, 1020, 1035}

BusyIntervals ==
    {i \in [start : BusyPoints, end : BusyPoints] : i.start < i.end}

RECURSIVE SetsUpTo(_, _)
SetsUpTo(S, n) ==
    IF n = 0 THEN {{}} ELSE LET smaller == SetsUpTo(S, n - 1)
                            IN  smaller \cup {t \cup {x} : t \in smaller, x \in S}

Durations == {15 * k : k \in 1..MaxDurUnits}

SlotsInit ==
    /\ Started
    /\ harness \in
         {[done |-> FALSE, date |-> Iso(MaxDay), duration |-> d, listOk |-> TRUE,
           busy |-> b, slots |-> <<>>] : d \in Durations, b \in SetsUpTo(BusyIntervals, MaxBusy)}
         \cup
         {[done |-> FALSE, date |-> dt, duration |-> DefaultDuration, listOk |-> ok,
           busy |-> {}, slots |-> <<>>] : dt \in DateInputs, ok \in BOOLEAN}

CallGetAvailableSlots ==
    /\ ~harness.done
    /\ harness' = [harness EXCEPT
                      !.done = TRUE,
                      !.slots = get_available_slots(harness.date, harness.duration,
                                                    harness.listOk, harness.busy)]
    /\ UNCHANGED <<session, last, today, calendar>>

SpecSlots == SlotsInit /\ [][CallGetAvailableSlots]_vars

\* -------------------------------------------- schedule_appointment, directly
SchedulerEmails == {None, "", " ", "jane@example.com"}

SchedulerTimes == {T0900, <<" ", "9", ":", "0", "0">>, T2pm, <<>>}

SchedulerInit ==
    /\ Started
    /\ harness \in
         {[done |-> FALSE, date |-> d, time |-> t, email |-> e, insertOk |-> ok,
           result |-> NoSched] :
            d \in DateInputs, t \in SchedulerTimes, e \in SchedulerEmails, ok \in BOOLEAN}

CallScheduleAppointment ==
    /\ ~harness.done
    /\ harness' = [harness EXCEPT
                      !.done = TRUE,
                      !.result = schedule_appointment(harness.date, harness.time, "Jo",
                                                      harness.email, DefaultDuration,
                                                      <<>>, harness.insertOk)]
    /\ UNCHANGED <<session, last, today, calendar>>

SpecScheduler == SchedulerInit /\ [][CallScheduleAppointment]_vars

\* ------------------------------------------------ check_availability, directly
\* The preferred times a caller gives: 24-hour, 12-hour, bare hours, padded,
\* unpadded, outside the business hours, and texts that are no time.
PreferredInputs ==
    {<<>>, T0900, T0930, T2pm,
     <<"1", "0", ":", "0", "0">>,
     <<" ", "1", "0", ":", "0", "0", " ">>,
     <<"9", ":", "3", "0">>,
     <<"1", "6", ":", "3", "0">>,
     <<"2", ":", "3", "0", " ", "P", "M">>,
     <<"1", "0">>, <<"1", "8">>, <<"5", "p", "m">>, <<"1", "3", "p", "m">>,
     <<"n", "o", "o", "n">>}

PreferredInit ==
    /\ Started
    /\ harness \in
         {[done |-> FALSE, args |-> a, listOk |-> ok, busy |-> b, result |-> NoResult] :
            a \in {[date |-> Iso(MaxDay)]}
                    \cup {[date |-> Iso(MaxDay), preferred_time |-> p] : p \in PreferredInputs},
            ok \in BOOLEAN,
            b \in SetsUpTo(BusyIntervals, 1)}

CallCheckAvailability ==
    /\ ~harness.done
    /\ harness' = [harness EXCEPT
                      !.done = TRUE,
                      !.result = check_availability(
                          harness.args,
                          [today |-> today,
                           cal |-> {[day |-> MaxDay, start |-> b.start, end |-> b.end] :
                                        b \in harness.busy},
                           listOk |-> harness.listOk, insertOk |-> TRUE])]
    /\ UNCHANGED <<session, last, today, calendar>>

SpecPreferred == PreferredInit /\ [][CallCheckAvailability]_vars

\* ---------------------------------------------------- date formatting, directly
\* Every day of a 31-day month, as the date text to format and as today.
FormatInit ==
    /\ Started
    /\ harness \in {[done |-> FALSE, date |-> [form |-> f, day |-> d],
                      formatted |-> NoResult, context |-> NoResult] :
                        f \in DateForms, d \in 1..DaysInMonth}

CallFormatDate ==
    /\ ~harness.done
    /\ harness' = [harness EXCEPT
                      !.done = TRUE,
                      !.formatted = format_date_user_friendly(harness.date),
                      !.context = get_current_datetime_context(harness.date.day)]
    /\ UNCHANGED <<session, last, today, calendar>>

SpecFormat == FormatInit /\ [][CallFormatDate]_vars

\* ---------------------------------------------------- normalize_time, directly
\* The texts a caller gives as a time: blanks, an hour, minutes, a blank, a
\* meridiem marker and blanks, each part present or not, right or wrong.
TimeHours ==
    {<<>>, <<"0">>, <<"2">>, <<"9">>, <<"0", "9">>, <<"1", "2">>, <<"1", "3">>,
     <<"1", "7">>, <<"1", "8">>, <<"2", "4">>}

TimeMinutes == {<<>>, <<":", "0", "0">>, <<":", "3", "0">>, <<":", "5">>, <<":", "6", "0">>}

TimeMeridiems == {<<>>, <<"a", "m">>, <<"p", "m">>, <<"P", "M">>, <<"A", "m">>, <<"x", "m">>}

Blanks == {<<>>, <<" ">>}

TimeInputs ==
    {p1 \o h \o m \o g \o mer \o p2 :
        p1 \in Blanks, h \in TimeHours, m \in TimeMinutes, g \in Blanks,
        mer \in TimeMeridiems, p2 \in Blanks}

NormalizeInit ==
    /\ Started
    /\ harness \in {[done |-> FALSE, input |-> x, output |-> <<>>, again |-> <<>>] :
                        x \in TimeInputs}

\* normalize_time of the input, and normalize_time of what that returned.
CallNormalizeTime ==
    /\ ~harness.done
    /\ harness' = [harness EXCEPT
                      !.done = TRUE,
                      !.output = normalize_time(harness.input),
                      !.again = normalize_time(normalize_time(harness.input))]
    /\ UNCHANGED <<session, last, today, calendar>>

SpecNormalize == NormalizeInit /\ [][CallNormalizeTime]_vars

\* ------------------------------------------------------------------ claims
\* A step of the engine is a call: last' describes it, and `current' is the node
\* it was made in.
IsInvoke == last'.fn # "initialize"

\* C1: once initialized exactly one node is current; an invoke succeeds only
\* if its name is one of the functions flow_config lists for the current node,
\* and an invoke with any other name (a function of another node included)
\* fails with IllegalFunctionError and leaves the current node, the collected
\* facts and the message history unchanged.
C1_OnlyCurrentNodeFunctions ==
    [][/\ (current # None \/ last'.fn = "initialize") => current' \in Nodes
       /\ IsInvoke /\ last'.kind = "ok" =>
            /\ current \in Nodes
            /\ \E i \in 1..Len(NodeFunctions[current]) : NodeFunctions[current][i] = last'.fn
       /\ (IsInvoke /\ (current \in Nodes =>
                ~\E i \in 1..Len(NodeFunctions[current]) : NodeFunctions[current][i] = last'.fn)) =>
            /\ last'.kind = "IllegalFunctionError"
            /\ current' = current
            /\ facts' = facts
            /\ history' = history]_vars

\* C1's case: after the intake has started, a function of another node is
\* called and refused.
C1_Witness ==
    /\ last.kind = "IllegalFunctionError"
    /\ last.fn = "schedule_appointment_handler"
    /\ current = "get_allergies"
    /\ facts["PatientInfoResult"].type # None

\* The next-node identifiers the handlers return.
HandlerTargets ==
    {"get_prescriptions", "get_allergies", "get_conditions", "get_visit_reasons",
     "verify", "confirm", "schedule_date", "schedule_time", "confirm_appointment",
     "reschedule_appointment", "end"}

\* C2: in flow_config the function names of a node are pairwise different and
\* every next-node identifier a handler returns is a key of the node table;
\* so the current node is always a defined node, a successful invoke arrives at
\* one of the handlers' targets, and no transition targets an undefined node.
C2_TargetsAreDefinedNodes ==
    /\ \A node \in DOMAIN NodeFunctions :
            \A i, j \in 1..Len(NodeFunctions[node]) :
                NodeFunctions[node][i] = NodeFunctions[node][j] => i = j
    /\ HandlerTargets \subseteq DOMAIN NodeFunctions
    /\ initial_node \in DOMAIN NodeFunctions
    /\ current # None => current \in DOMAIN NodeFunctions
    /\ last.kind # "UndefinedNodeError"
    /\ (last.kind = "ok" /\ last.fn # "initialize") => current \in HandlerTargets

\* C2's case: the session has gone through the whole flow to its last node.
C2_Witness ==
    /\ current = "end"
    /\ last.fn = "confirm_final_appointment"
    /\ last.kind = "ok"
    /\ facts["VisitReasonRecordResult"].type # None

\* The characters of a name that are not blanks around it.
TrimmedLen(name) ==
    IF \A i \in 1..Len(name) : name[i] = " " THEN 0
    ELSE LET first == CHOOSE i \in 1..Len(name) :
                        name[i] # " " /\ \A j \in 1..(i - 1) : name[j] = " "
             lastc == CHOOSE i \in 1..Len(name) :
                        name[i] # " " /\ \A j \in (i + 1)..Len(name) : name[j] = " "
         IN  lastc - first + 1

\* C3: a failed handler call does not transition. collect_patient_info with a
\* name that is empty or shorter than 2 characters once trimmed is reported as
\* a failure (ValueError) and the current node, its legal functions and the
\* collected facts stay as they were; with a name of 2 or more characters the
\* same call, also right after a failed one, succeeds and moves the session to
\* get_prescriptions with the trimmed name recorded.
C3_FailedHandlerKeepsNode ==
    [][/\ (IsInvoke /\ last'.kind = "HandlerFailure") =>
            /\ current' = current
            /\ facts' = facts
            /\ history' = history
            /\ LegalFunctions(current') = LegalFunctions(current)
       /\ \A args \in ArgsFor("collect_patient_info") :
            (/\ current = "collect_info"
             /\ "birthday" \in DOMAIN args
             /\ invoke("collect_patient_info", args, TRUE, TRUE)) =>
                IF TrimmedLen(args.name) < 2
                THEN /\ last'.kind = "HandlerFailure"
                     /\ last'.error = "ValueError"
                     /\ current' = "collect_info"
                     /\ facts' = facts
                     /\ LegalFunctions(current') = {"collect_patient_info"}
                ELSE /\ last'.kind = "ok"
                     /\ current' = "get_prescriptions"
                     /\ facts'["PatientInfoResult"].type = "PatientInfoResult"
                     /\ Len(facts'["PatientInfoResult"].name) = TrimmedLen(args.name)
                     /\ facts'["PatientInfoResult"].birthday = args.birthday]_vars

\* C3's case: collect_patient_info failed on a short name and the next call of
\* it, with a valid name, went through.
C3_Witness ==
    /\ last.fn = "collect_patient_info"
    /\ last.kind = "ok"
    /\ last.retry
    /\ current = "get_prescriptions"
    /\ facts["PatientInfoResult"].name = <<"J", "o">>

\* A date text in YYYY-MM-DD form, blanks around it aside: four, two and two
\* digits.  "2027-1-5" is not.
InDateForm(d) == d.form \in {"iso", "ws"}

\* C4: check_availability with a date that is not in YYYY-MM-DD form, or that
\* is today or earlier, fails with a validation error (ValueError) before any
\* backend call and the current node stays schedule_date; only a date after
\* today moves the session to schedule_time.
C4_RejectsMalformedOrPastDate ==
    [][\A args \in ArgsFor("check_availability") : \A listOk \in BOOLEAN :
        (/\ current = "schedule_date"
         /\ "date" \in DOMAIN args
         /\ invoke("check_availability", args, listOk, TRUE)) =>
            IF ~InDateForm(args.date) \/ args.date.day <= today
            THEN /\ last'.kind = "HandlerFailure"
                 /\ last'.error = "ValueError"
                 /\ last'.listCalls = 0
                 /\ last'.insertCalls = 0
                 /\ current' = "schedule_date"
                 /\ facts' = facts
            ELSE /\ last'.kind = "ok"
                 /\ current' = "schedule_time"]_vars

\* C5: the backend's insert is never called for a booking whose email is empty
\* or absent: no call of the engine leaves such a request at the backend, the
\* handler raises on such an email without calling the scheduler's backend,
\* and the scheduler called directly with such an email returns without an
\* insert, whether or not the backend would have answered.
C5_NoInsertWithoutEmail ==
    /\ last.insertCalls > 0 => last.request.email \notin {"", None}
    /\ \A args \in ArgsFor("schedule_appointment_handler") : \A insertOk \in BOOLEAN :
            ("email" \in DOMAIN args /\ args.email \in {"", None}) =>
                LET r == schedule_appointment_handler(
                            args, [today |-> today, cal |-> calendar,
                                   listOk |-> TRUE, insertOk |-> insertOk])
                IN  r.raised = "ValueError" /\ ~r.sched.called
    /\ \A email \in {"", None} : \A time \in {T0900, T2pm} : \A insertOk \in BOOLEAN :
            LET r == schedule_appointment(Iso(MaxDay), time, "Jo", email,
                                          DefaultDuration, <<>>, insertOk)
            IN  ~r.called /\ ~r.success /\ r.request = NoRequest

\* C5's case: at schedule_time the handler was called with an empty email and
\* the call ended with no insert.
C5_Witness ==
    /\ last.fn = "schedule_appointment_handler"
    /\ last.kind = "HandlerFailure"
    /\ last.msg = "Patient email is required to schedule appointment and send calendar invitation"
    /\ last.insertCalls = 0
    /\ current = "schedule_time"

\* C6: a booking attempt with an empty or absent email ends in an error (a
\* MissingContactError raised to the caller), not in a success=false outcome,
\* and with no backend call.
C6_EmptyEmailIsAnError ==
    (harness.done /\ harness.email \in {"", None}) =>
        /\ harness.result.escaped
        /\ ~harness.result.called

\* C7: when the backend's insert fails, the scheduler returns success=false
\* and nothing escapes it, and the call of schedule_appointment_handler ends
\* as a transition from schedule_time to reschedule_appointment with
\* scheduled=false: not as a failed call, and not in confirm_appointment.
C7_InsertFailureReschedules ==
    [][\A args \in ArgsFor("schedule_appointment_handler") :
        (/\ current = "schedule_time"
         /\ invoke("schedule_appointment_handler", args, TRUE, FALSE)
         /\ last'.insertCalls = 1) =>
            /\ LET r == schedule_appointment(args.date, args.time, "Jo", args.email,
                                             DefaultDuration, <<>>, FALSE)
               IN  r.called /\ ~r.success /\ ~r.escaped
            /\ last'.kind = "ok"
            /\ last'.error = None
            /\ current' = "reschedule_appointment"
            /\ facts'["AppointmentScheduleResult"].type = "AppointmentScheduleResult"
            /\ facts'["AppointmentScheduleResult"].scheduled = FALSE
            /\ calendar' = calendar]_vars

\* C7's case: the insert was attempted, failed, and the session is in
\* reschedule_appointment.
C7_Witness ==
    /\ last.fn = "schedule_appointment_handler"
    /\ last.insertCalls = 1
    /\ last.request.email = "jane@example.com"
    /\ facts["AppointmentScheduleResult"].type # None
    /\ ~facts["AppointmentScheduleResult"].scheduled
    /\ current = "reschedule_appointment"

\* The intake steps: function, node it is called in, node it leads to, the key
\* of its result and its list argument.
IntakeSteps ==
    {[fn |-> "record_prescriptions", from |-> "get_prescriptions", to |-> "get_allergies",
      key |-> "PrescriptionRecordResult", arg |-> "prescriptions"],
     [fn |-> "record_allergies", from |-> "get_allergies", to |-> "get_conditions",
      key |-> "AllergyRecordResult", arg |-> "allergies"],
     [fn |-> "record_conditions", from |-> "get_conditions", to |-> "get_visit_reasons",
      key |-> "ConditionRecordResult", arg |-> "conditions"],
     [fn |-> "record_visit_reasons", from |-> "get_visit_reasons", to |-> "verify",
      key |-> "VisitReasonRecordResult", arg |-> "visit_reasons"]}

IntakeKeys == {"PatientInfoResult"} \cup {s.key : s \in IntakeSteps}

\* C8: initialize starts at collect_info; a successful collect_patient_info
\* leads to get_prescriptions, and record_prescriptions, record_allergies,
\* record_conditions and record_visit_reasons, each with any list, the empty
\* one included, succeed and lead to get_allergies, get_conditions,
\* get_visit_reasons and verify; on arrival at verify the collected facts hold
\* the patient's name and birthday and the four recorded lists.
C8_IntakePath ==
    [][/\ (last'.fn = "initialize" /\ last'.kind = "ok") => current' = "collect_info"
       /\ (IsInvoke /\ last'.fn = "collect_patient_info" /\ last'.kind = "ok") =>
            /\ current = "collect_info"
            /\ current' = "get_prescriptions"
       /\ \A s \in IntakeSteps : \A args \in ArgsFor(s.fn) :
            (current = s.from /\ invoke(s.fn, args, TRUE, TRUE)) =>
                /\ last'.kind = "ok"
                /\ current' = s.to
                /\ facts'[s.key].type = s.key
                /\ facts'[s.key].count = Len(args[s.arg])
       /\ (current = "get_visit_reasons" /\ current' = "verify") =>
            /\ \A k \in IntakeKeys : facts'[k].type = k
            /\ Len(facts'["PatientInfoResult"].name) >= 2
            /\ facts'["PatientInfoResult"].birthday = "1990-01-01"]_vars

\* C8's case: the five calls in order, the first list empty and the last with
\* one reason, have brought the session to verify.
C8_Witness ==
    /\ current = "verify"
    /\ last.fn = "record_visit_reasons"
    /\ last.kind = "ok"
    /\ facts["PrescriptionRecordResult"].count = 0
    /\ facts["VisitReasonRecordResult"].count = 1
    /\ facts["PatientInfoResult"].name = <<"J", "o">>
    /\ facts["DateInfoResult"].type = None

\* The start times, in minutes, of the slots a call returned.
SlotStarts(slots) == [i \in 1..Len(slots) |-> ParseHM(slots[i])]

\* C9: every slot get_available_slots returns starts at or after 09:00 and
\* ends, start + duration, at or before 17:00; the starts lie on the 30-minute
\* cadence counted from 09:00 (the code's one step), with no busy interval
\* every candidate of the cadence from 09:00 on is returned, and the list is
\* in chronological order.
C9_SlotsWithinBusinessHours ==
    harness.done =>
        LET starts == SlotStarts(harness.slots)
        IN  /\ \A i \in 1..Len(starts) :
                    /\ 9 * 60 <= starts[i]
                    /\ starts[i] + harness.duration <= 17 * 60
                    /\ (starts[i] - 9 * 60) % 30 = 0
            /\ \A i \in 1..(Len(starts) - 1) : starts[i] < starts[i + 1]
            /\ (harness.busy = {} /\ harness.listOk /\ harness.date.form = "iso") =>
                    /\ Len(starts) > 0
                    /\ starts[1] = 9 * 60
                    /\ \A i \in 1..(Len(starts) - 1) : starts[i + 1] = starts[i] + 30
                    /\ starts[Len(starts)] + 30 + harness.duration > 17 * 60

\* C9's case: a call with a 45-minute duration and a busy interval returned
\* several slots.
C9_Witness ==
    /\ harness.done
    /\ harness.duration = 45
    /\ harness.busy # {}
    /\ Len(harness.slots) > 2
    /\ harness.slots[1] # T0900

\* C10: a candidate slot [s, s + duration) of the cadence is returned if and
\* only if no busy interval [b, e) has s < e and s + duration > b: an interval
\* that only touches the slot's start or end does not exclude it, one that
\* covers it does, and the one busy interval [09:00, 09:30) with 30-minute
\* slots gives a list that starts at 09:30.
C10_HalfOpenOverlap ==
    (harness.done /\ harness.listOk /\ harness.date.form = "iso") =>
        /\ \A k \in 0..15 :
              LET s == 9 * 60 + 30 * k
              IN  s + harness.duration <= 17 * 60 =>
                    ((\E i \in 1..Len(harness.slots) : ParseHM(harness.slots[i]) = s)
                        <=> ~\E b \in harness.busy :
                                s < b.end /\ s + harness.duration > b.start)
        /\ (harness.busy = {[start |-> 540, end |-> 570]} /\ harness.duration = 30) =>
                /\ harness.slots # <<>>
                /\ harness.slots[1] = <<"0", "9", ":", "3", "0">>

\* C10's case: the call with the one busy interval [09:00, 09:30) and
\* 30-minute slots.
C10_Witness ==
    /\ harness.done
    /\ harness.busy = {[start |-> 540, end |-> 570]}
    /\ harness.duration = 30
    /\ harness.slots[1] = T0930
    /\ Len(harness.slots) = 15

\* C11: when the backend fails while listing the day's events, the
\* availability calculation raises nothing and answers as for an empty busy
\* set: every candidate slot of the business hours is returned.
C11_ListFailureMeansNoConflicts ==
    (harness.done /\ ~harness.listOk /\ harness.date.form = "iso") =>
        LET starts == SlotStarts(harness.slots)
            n == Cardinality({k \in 0..15 : 9 * 60 + 30 * k + harness.duration <= 17 * 60})
        IN  /\ Len(starts) = n
            /\ \A i \in 1..Len(starts) : starts[i] = 9 * 60 + 30 * (i - 1)

SeqRange(q) == {q[i] : i \in 1..Len(q)}

\* C12: check_availability with a preferred time whose normalized form is in
\* the list of available slots returns that list with the preferred slot
\* first and the other slots in their order; with no preferred time, or one
\* that is not available or is no time, it returns the list as it is and
\* raises nothing.  Either way the returned slots are the same slots, each
\* once.
C12_PreferredTimePromotion ==
    harness.done =>
        LET r == harness.result
            out == r.result.available_slots
            base == get_available_slots(harness.args.date, 30, harness.listOk, harness.busy)
            supplied == /\ "preferred_time" \in DOMAIN harness.args
                        /\ \E i \in 1..Len(harness.args.preferred_time) :
                                harness.args.preferred_time[i] # " "
            wanted == normalize_time(harness.args.preferred_time)
        IN  /\ r.raised = None
            /\ r.next = "schedule_time"
            /\ IF supplied /\ wanted \in SeqRange(base)
               THEN /\ out[1] = wanted
                    /\ Tail(out) = SelectSeq(base, LAMBDA x : x # wanted)
               ELSE out = base
            /\ Len(out) = Len(base)
            /\ SeqRange(out) = SeqRange(base)
            /\ \A i, j \in 1..Len(out) : out[i] = out[j] => i = j

\* C12's case: "2pm" was asked for with 09:00 busy, and 14:00 came first,
\* before 09:30.
C12_Witness ==
    /\ harness.done
    /\ "preferred_time" \in DOMAIN harness.args
    /\ harness.args.preferred_time = T2pm
    /\ harness.busy = {[start |-> 540, end |-> 570]}
    /\ Len(harness.result.result.available_slots) = 15
    /\ harness.result.result.available_slots[1] = <<"1", "4", ":", "0", "0">>
    /\ harness.result.result.available_slots[2] = T0930

\* The forms normalize_time accepts, on the text in lower case without the
\* blanks around it: a 12-hour time with am or pm (blanks inside dropped, ":00"
\* supplied when there is no colon), a 24-hour H:MM time, a bare hour 9..17.
TwelveHourForm(x) ==
    LET t == Strip(Lower(x))
        packed == SelectSeq(t, LAMBDA c : c # " ")
        n == Len(packed)
        mer == IF n >= 2 THEN SubSeq(packed, n - 1, n) ELSE <<>>
        body == IF n >= 2 THEN SubSeq(packed, 1, n - 2) ELSE <<>>
        hm == IF \E i \in 1..n : packed[i] = ":" THEN body ELSE body \o <<":", "0", "0">>
    IN  /\ mer \in {<<"a", "m">>, <<"p", "m">>}
        /\ ParseHM(hm) >= 0
        /\ ParseHM(hm) \div 60 \in 1..12

TwentyFourHourForm(x) == ParseHM(Strip(Lower(x))) >= 0

BareHourForm(x) == ParseInt(Strip(Lower(x))) \in 9..17

AcceptedTimeForm(x) == TwelveHourForm(x) \/ TwentyFourHourForm(x) \/ BareHourForm(x)

\* C13: normalize_time is idempotent on every input it parses: normalizing
\* its own result gives that result again.
C13_NormalizeTimeIdempotent ==
    (harness.done /\ AcceptedTimeForm(harness.input)) => harness.again = harness.output

\* C13's case: "2 PM", with blanks around it, became 14:00 and stayed 14:00.
C13_Witness ==
    /\ harness.done
    /\ harness.input = <<" ", "2", " ", "P", "M", " ">>
    /\ harness.output = <<"1", "4", ":", "0", "0">>
    /\ harness.again = <<"1", "4", ":", "0", "0">>

\* C14: for every input of none of the accepted forms normalize_time returns
\* the input it was given, character for character.
C14_UnparseableReturnedUnchanged ==
    (harness.done /\ ~AcceptedTimeForm(harness.input)) => harness.output = harness.input

\* The English ordinal suffix of a day of the month.
EnglishSuffix(day) ==
    CASE day \in {1, 21, 31} -> "st"
      [] day \in {2, 22} -> "nd"
      [] day \in {3, 23} -> "rd"
      [] OTHER -> "th"

\* C15: format_date_user_friendly and get_current_datetime_context give each
\* day 1..31 its English ordinal suffix: st for 1, 21, 31, nd for 2, 22, rd
\* for 3, 23 and th for the others, 11, 12 and 13 included; no day takes an
\* index outside the three suffixes, and a text that is no date comes back
\* as it is.
C15_OrdinalSuffixes ==
    harness.done =>
        /\ harness.date.day \in 1..31
        /\ harness.context.day = harness.date.day
        /\ harness.context.suffix = EnglishSuffix(harness.date.day)
        /\ IF harness.date.form \in {"iso", "unpadded"}
           THEN /\ harness.formatted.form = "friendly"
                /\ harness.formatted.day = harness.date.day
                /\ harness.formatted.suffix = EnglishSuffix(harness.date.day)
                /\ harness.formatted.suffix \in {"st", "nd", "rd", "th"}
           ELSE harness.formatted = harness.date

\* C15's case: the 23rd was formatted, by both functions.
C15_Witness ==
    /\ harness.done
    /\ harness.date = [form |-> "iso", day |-> 23]
    /\ harness.formatted.suffix = "rd"
    /\ harness.context.suffix = "rd"

\* C16: before initialize no invoke succeeds and nothing changes; initialize
\* makes collect_info the current node, with collect_patient_info the one legal
\* function and the node's role and task messages the history; initialize on
\* a session that has a current node is reported as an error and leaves the
\* current node, the facts and the history as they are.
C16_InitializeOnceAtCollectInfo ==
    [][/\ (current = None /\ IsInvoke) =>
            /\ last'.kind # "ok"
            /\ current' = None
            /\ facts' = facts
            /\ history' = history
       /\ (current = None /\ last'.fn = "initialize") =>
            /\ last'.kind = "ok"
            /\ current' = "collect_info"
            /\ LegalFunctions(current') = {"collect_patient_info"}
            /\ history' = <<<<"collect_info", "role">>, <<"collect_info", "task">>>>
            /\ facts' = facts
       /\ (current # None /\ last'.fn = "initialize") =>
            /\ last'.kind = "AlreadyInitializedError"
            /\ current' = current
            /\ facts' = facts
            /\ history' = history
       /\ (current = None /\ current' # None) => last'.fn = "initialize"]_vars

\* C16's case: initialize was called again on a session that had moved past
\* collect_info, and the session is where it was.
C16_Witness ==
    /\ last.fn = "initialize"
    /\ last.kind = "AlreadyInitializedError"
    /\ current = "get_allergies"
    /\ facts["PrescriptionRecordResult"].type # None
    /\ Len(history) > 2

\* C17: no call removes a collected fact: a key that holds a result holds
\* one after every step, and a successful invoke leaves each key as it was or
\* with a new result of that key.  revise_information at verify succeeds, makes
\* get_prescriptions the current node and leaves the facts as they are, the
\* name and birthday and the four recorded lists all present.
C17_FactsAreNeverRemoved ==
    [][/\ \A k \in FactKeys : facts[k].type # None => facts'[k].type = k
       /\ (IsInvoke /\ last'.kind = "ok") =>
            \A k \in FactKeys : facts'[k] = facts[k] \/ facts'[k].type = k
       /\ (current = "verify" /\ invoke("revise_information", NoArgs, TRUE, TRUE)) =>
            /\ last'.kind = "ok"
            /\ current' = "get_prescriptions"
            /\ facts' = facts
            /\ \A k \in IntakeKeys : facts'[k].type = k
            /\ Len(facts'["PatientInfoResult"].name) >= 2
            /\ facts'["PatientInfoResult"].birthday = "1990-01-01"]_vars

\* C17's case: after revise_information the session is back at
\* get_prescriptions with the earlier answers still held.
C17_Witness ==
    /\ last.fn = "revise_information"
    /\ last.kind = "ok"
    /\ last.from = "verify"
    /\ current = "get_prescriptions"
    /\ facts["VisitReasonRecordResult"].count = 1
    /\ facts["PrescriptionRecordResult"].count = 1

\* C18: the end node has no function; once it is current no invoke succeeds
\* and the current node, the facts and the history change no more.  The call
\* that enters end emits the node's task message and then executes the
\* end-of-conversation action, and the end-of-conversation signal comes with
\* no other node.
C18_EndIsTerminal ==
    [][/\ NodeFunctions["end"] = <<>>
       /\ current = "end" =>
            /\ current' = "end"
            /\ last'.kind # "ok"
            /\ last'.events = <<>>
            /\ facts' = facts
            /\ history' = history
            /\ ended'
       /\ (current # "end" /\ current' = "end") =>
            /\ last'.fn = "confirm_final_appointment"
            /\ last'.events = <<<<"end", "task">>, <<"end", "end_conversation">>>>
            /\ ~ended
            /\ ended'
       /\ ended' => current' = "end"
       /\ (\E i \in 1..Len(last'.events) : last'.events[i][2] = "end_conversation") =>
            current' = "end"]_vars

\* C18's case: the session ended, and a call made at the end node was refused.
C18_Witness ==
    /\ current = "end"
    /\ ended
    /\ last.from = "end"
    /\ last.fn = "confirm_final_appointment"
    /\ last.kind = "IllegalFunctionError"

\* The time of day, in minutes, an input of an accepted form denotes.
DenotedTime(x) ==
    LET t == Strip(Lower(x))
        packed == SelectSeq(t, LAMBDA c : c # " ")
        n == Len(packed)
        body == SubSeq(packed, 1, n - 2)
        hm == IF \E i \in 1..n : packed[i] = ":" THEN body ELSE body \o <<":", "0", "0">>
    IN  IF TwelveHourForm(x)
        THEN 60 * (((ParseHM(hm) \div 60) % 12)
                   + (IF packed[n - 1] = "p" THEN 12 ELSE 0)) + (ParseHM(hm) % 60)
        ELSE IF TwentyFourHourForm(x) THEN ParseHM(t)
        ELSE 60 * ParseInt(t)

\* C21: for every input of an accepted form normalize_time returns the
\* zero-padded 24-hour HH:MM text of the same time: "2pm" gives 14:00, "12am"
\* 00:00, "9:30" 09:30, a bare hour 9..17 HH:00.
C21_NormalizeTimeIsCanonical ==
    (harness.done /\ AcceptedTimeForm(harness.input)) =>
        /\ Len(harness.output) = 5
        /\ harness.output[3] = ":"
        /\ \A i \in {1, 2, 4, 5} : harness.output[i] \in SeqRange(DigitChars)
        /\ ParseHM(harness.output) = DenotedTime(harness.input)

\* C22: the history is compacted at one checkpoint.  A successful invoke at
\* verify (revise_information or confirm_information) replaces the whole
\* history by one summary message, after which the new node's messages follow;
\* a successful invoke at any other node keeps the history and adds the new
\* node's messages to it, and a failed call leaves the history as it is.
C22_CompactionOnlyAtVerify ==
    [][/\ (IsInvoke /\ last'.kind = "ok" /\ current = "verify") =>
            /\ last'.fn \in {"revise_information", "confirm_information"}
            /\ Len(history) > 1
            /\ history'[1] = <<"verify", "summary">>
            /\ Len(history') = 2
            /\ history'[2] = <<current', "task">>
       /\ (IsInvoke /\ last'.kind = "ok" /\ current # "verify") =>
            /\ Len(history') > Len(history)
            /\ SubSeq(history', 1, Len(history)) = history
            /\ history'[Len(history')] = <<current', "task">>
       /\ (IsInvoke /\ last'.kind # "ok") => history' = history]_vars

\* C22's case: confirm_information at verify left the summary and the confirm
\* node's task message as the whole history.
C22_Witness ==
    /\ last.fn = "confirm_information"
    /\ last.kind = "ok"
    /\ last.from = "verify"
    /\ current = "confirm"
    /\ history = <<<<"verify", "summary">>, <<"confirm", "task">>>>

\* The parameters the schemas of flow_config list as required.
SchemaRequires ==
    [collect_patient_info |-> {"name", "birthday"},
     check_availability |-> {"date"},
     schedule_appointment_handler |-> {"date", "time", "email"}]

\* C23: an invoke of a function of the current node whose arguments lack a
\* required parameter (check_availability without date,
\* schedule_appointment_handler without email, collect_patient_info without
\* birthday) fails with SchemaValidationError: the handler does not run, no
\* backend call is made, and the current node, the facts and the backend's
\* events are unchanged.
C23_MissingRequiredParameter ==
    [][/\ \A fn \in DOMAIN SchemaRequires : \A args \in ArgsFor(fn) :
            \A listOk \in BOOLEAN, insertOk \in BOOLEAN :
                (/\ current \in Nodes
                 /\ \E i \in 1..Len(NodeFunctions[current]) : NodeFunctions[current][i] = fn
                 /\ \E q \in SchemaRequires[fn] : q \notin DOMAIN args
                 /\ invoke(fn, args, listOk, insertOk)) =>
                    /\ last'.kind = "SchemaValidationError"
                    /\ last'.error = None
                    /\ last'.listCalls = 0
                    /\ last'.insertCalls = 0
                    /\ current' = current
                    /\ facts' = facts
                    /\ calendar' = calendar
       /\ (IsInvoke /\ last'.kind = "SchemaValidationError") =>
            /\ last'.listCalls = 0
            /\ last'.insertCalls = 0
            /\ current' = current
            /\ facts' = facts
            /\ history' = history
            /\ calendar' = calendar]_vars

\* C23's case: schedule_appointment_handler was called at schedule_time
\* without its required arguments and was refused there.
C23_Witness ==
    /\ last.fn = "schedule_appointment_handler"
    /\ last.kind = "SchemaValidationError"
    /\ last.from = "schedule_time"
    /\ current = "schedule_time"
    /\ last.insertCalls = 0
    /\ facts["DateCheckResult"].type # None

\* C24: when the participant has disconnected while a handler's calendar
\* backend call is in flight, the teardown goes ahead without the call's
\* result: on_participant_left can run while the call is still in flight.
C24_TeardownDoesNotWait ==
    (harness.left /\ ~harness.cancelled /\ harness.inflight # NoFlight)
        => ENABLED on_participant_left

\* No '%Y-%m-%d %H:%M' reading: the date is not digits-dash-digits-dash-digits
\* or the time is not digits-colon-digits within 00:00..23:59.
NoInstant(args) ==
    \/ args.date.form \notin {"iso", "unpadded"}
    \/ ParseHM(LStrip(args.time)) < 0

CandidateStarts ==
    {BusinessStart + StepMinutes * k : k \in 0..((BusinessEnd - BusinessStart) \div StepMinutes - 1)}

\* Every candidate slot of the day meets a busy interval.
FullyBooked(busy) ==
    \A c \in CandidateStarts :
        \E b \in busy : c < b.end /\ c + DefaultDuration > b.start

\* C26: a day on which every candidate slot overlaps a busy interval is no
\* error: check_availability returns a result with available_slots = [] and
\* schedule_time as the next node.
C26_FullyBookedDayIsNotAnError ==
    (harness.done /\ harness.listOk /\ FullyBooked(harness.busy)) =>
        /\ harness.result.raised = None
        /\ harness.result.result.type = "DateCheckResult"
        /\ harness.result.result.available_slots = <<>>
        /\ harness.result.next = "schedule_time"

\* C26's case: the day is taken from before 09:00 to after 17:00, a preferred
\* time was given, and the call returned no slot.
C26_Witness ==
    /\ harness.done
    /\ harness.listOk
    /\ harness.busy = {[start |-> 525, end |-> 1035]}
    /\ "preferred_time" \in DOMAIN harness.args
    /\ harness.result.result.available_slots = <<>>
    /\ harness.result.next = "schedule_time"

\* The nodes after the booking.
BookedNodes == {"confirm_appointment", "end"}

\* C27: the current node is confirm_appointment or end only after a
\* schedule_appointment_handler call of this session whose events().insert()
\* the backend accepted: the session enters these nodes from outside only by
\* such a call, which records scheduled = true and leaves its event in the
\* backend, and the record stays while the session is there; a session that
\* has ended has a booked appointment.
C27_ConfirmOnlyAfterAcceptedInsert ==
    /\ [](/\ current \in BookedNodes =>
                /\ facts["AppointmentScheduleResult"].type = "AppointmentScheduleResult"
                /\ facts["AppointmentScheduleResult"].scheduled = TRUE
                /\ \E e \in calendar :
                      /\ e.day = facts["AppointmentScheduleResult"].appointment_date.day
                      /\ e.start = ParseHM(facts["AppointmentScheduleResult"].appointment_time)
          /\ ended => current = "end")
    /\ [][(current' \in BookedNodes /\ current \notin BookedNodes) =>
            /\ last'.fn = "schedule_appointment_handler"
            /\ last'.kind = "ok"
            /\ last'.insertCalls = 1
            /\ current = "schedule_time"
            /\ current' = "confirm_appointment"
            /\ [day |-> last'.request.day, start |-> last'.request.start,
                end |-> last'.request.end, email |-> last'.request.email] \in calendar']_vars

\* C27's case: the session has ended, after a booking the backend accepted.
C27_Witness ==
    /\ current = "end"
    /\ ended
    /\ facts["AppointmentScheduleResult"].scheduled = TRUE
    /\ last.fn = "confirm_final_appointment"

\* The intake in order: each node with the function that leaves it forwards.
IntakeOrder ==
    <<[node |-> "collect_info", fn |-> "collect_patient_info"],
      [node |-> "get_prescriptions", fn |-> "record_prescriptions"],
      [node |-> "get_allergies", fn |-> "record_allergies"],
      [node |-> "get_conditions", fn |-> "record_conditions"],
      [node |-> "get_visit_reasons", fn |-> "record_visit_reasons"],
      [node |-> "verify", fn |-> "confirm_information"],
      [node |-> "confirm", fn |-> "complete_intake"]>>

\* The place of a node in the intake; the scheduling nodes come after it.
IntakeRank(node) ==
    IF \E i \in 1..Len(IntakeOrder) : IntakeOrder[i].node = node
    THEN CHOOSE i \in 1..Len(IntakeOrder) : IntakeOrder[i].node = node
    ELSE Len(IntakeOrder) + 1

\* C28: intake precedes scheduling.  A session in the intake moves forward
\* only one step at a time, by the successful call of that step's function
\* (collect_patient_info, record_prescriptions, record_allergies,
\* record_conditions, record_visit_reasons, confirm_information,
\* complete_intake), or back from verify by revise_information; so schedule_date
\* is first reached after the seven calls in this order, with the five intake
\* results recorded, and no call of the calendar backend, list or insert, is
\* made from a node of the intake.
C28_IntakePrecedesScheduling ==
    /\ []((current # None /\ IntakeRank(current) > Len(IntakeOrder)) =>
            \A k \in IntakeKeys : facts[k].type = k)
    /\ [][/\ current = None => current' \in {None, "collect_info"}
          /\ (current # None /\ current' # current /\ IntakeRank(current) <= Len(IntakeOrder)) =>
                /\ IsInvoke
                /\ last'.kind = "ok"
                /\ \/ /\ last'.fn = IntakeOrder[IntakeRank(current)].fn
                      /\ IntakeRank(current') = IntakeRank(current) + 1
                      /\ current' = "schedule_date" <=> current = "confirm"
                   \/ /\ current = "verify"
                      /\ last'.fn = "revise_information"
                      /\ IntakeRank(current') < IntakeRank(current)
          /\ (last'.listCalls > 0 \/ last'.insertCalls > 0 \/ calendar' # calendar) =>
                /\ current # None
                /\ IntakeRank(current) > Len(IntakeOrder)]_vars

\* C28's case: complete_intake has just brought the session to schedule_date,
\* with the intake recorded and the backend as it was at the start.
C28_Witness ==
    /\ current = "schedule_date"
    /\ last.fn = "complete_intake"
    /\ last.kind = "ok"
    /\ last.from = "confirm"
    /\ \A k \in IntakeKeys : facts[k].type = k
    /\ facts["DateCheckResult"].type = None
    /\ calendar = InitCalendar

\* C29: every event schedule_appointment_handler creates is for the date of
\* the session's most recent successful check_availability and for a time of
\* the slot list that call returned.
C29_BooksOnlyOfferedSlots ==
    [][(/\ IsInvoke
        /\ last'.fn = "schedule_appointment_handler"
        /\ last'.insertCalls = 1
        /\ last'.kind = "ok"
        /\ facts'["AppointmentScheduleResult"].scheduled = TRUE) =>
            /\ facts["DateCheckResult"].type = "DateCheckResult"
            /\ last'.request.day = facts["DateCheckResult"].date.day
            /\ \E i \in 1..Len(facts["DateCheckResult"].available_slots) :
                  ParseHM(facts["DateCheckResult"].available_slots[i]) = last'.request.start]_vars

\* The appointments created since the start.
Created == calendar \ InitCalendar

\* The session's last check_availability offered the time of its booking
\* request.
Offered(fs, time) ==
    /\ fs["DateCheckResult"].type = "DateCheckResult"
    /\ InSeq(time, fs["DateCheckResult"].available_slots)

\* C30: no two created appointments overlap in time: of two sessions that
\* were both offered the same free slot by check_availability and both asked
\* for it, at most one is past the booking (at confirm_appointment or end),
\* and the backend holds no two overlapping appointments.
C30_NoOverlappingAppointments ==
    (Offered(facts, T0930) /\ Offered(harness.parked.facts, T0930)) =>
        /\ \A a \in Created : \A b \in Created :
              (a # b /\ a.day = b.day) => ~(a.start < b.end /\ b.start < a.end)
        /\ ~(/\ current \in BookedNodes
             /\ harness.parked.current \in BookedNodes
             /\ facts["AppointmentScheduleResult"].appointment_date
                    = harness.parked.facts["AppointmentScheduleResult"].appointment_date
             /\ facts["AppointmentScheduleResult"].appointment_time
                    = harness.parked.facts["AppointmentScheduleResult"].appointment_time)

\* The nodes one successful invocation away from a node: the next nodes its
\* functions' handlers return, over the arguments and the backend's answers.
Successors(node) ==
    LET results(fn) == {Handler(fn, args, [today |-> today, cal |-> calendar,
                                          listOk |-> listOk, insertOk |-> insertOk]) :
                            args \in ArgsFor(fn), listOk \in ListAnswers(fn),
                            insertOk \in InsertAnswers(fn)}
    IN  {r.next : r \in {x \in UNION {results(fn) : fn \in LegalFunctions(node)} :
                            x.raised = None /\ x.next \in Nodes}}

\* The nodes reachable from a set of nodes along the edges, in at most n more
\* rounds.
RECURSIVE ReachWithin(_, _, _)
ReachWithin(seen, edges, n) ==
    IF n = 0 THEN seen
    ELSE ReachWithin(seen \cup {e[2] : e \in {x \in edges : x[1] \in seen}}, edges, n - 1)

\* C31: the node graph has no orphan and no dead end.  Every node of
\* flow_config is reachable from collect_info by successful invocations, and
\* from every node the session can be at the end node is reachable;
\* reschedule_appointment leads to schedule_date and nowhere else, and
\* get_current_date leaves the session at schedule_date.
C31_NoDeadEndsNoOrphans ==
    /\ [](\E edges \in {{<<n, m>> : n \in Nodes, m \in Nodes} \cap
                        UNION {{<<n, m>> : m \in Successors(n)} : n \in Nodes}} :
            /\ ReachWithin({initial_node}, edges, Cardinality(Nodes)) = Nodes
            /\ ReachWithin({"end"}, {<<e[2], e[1]>> : e \in edges}, Cardinality(Nodes)) = Nodes
            /\ {e[2] : e \in {x \in edges : x[1] = "reschedule_appointment"}} = {"schedule_date"}
            /\ current \in Nodes \cup {None})
    /\ [][/\ (IsInvoke /\ last'.fn = "get_current_date" /\ last'.kind = "ok") =>
                (current = "schedule_date" /\ current' = "schedule_date")
          /\ (IsInvoke /\ last'.fn = "reschedule_appointment" /\ last'.kind = "ok") =>
                (current = "reschedule_appointment" /\ current' = "schedule_date")]_vars

\* C31's case: after a refused booking reschedule_appointment has brought the
\* session back to schedule_date.
C31_Witness ==
    /\ current = "schedule_date"
    /\ last.fn = "reschedule_appointment"
    /\ last.kind = "ok"
    /\ last.from = "reschedule_appointment"
    /\ facts["AppointmentScheduleResult"].scheduled = FALSE

\* C32: when the caller goes on with legal invocations and, at each node,
\* in the end makes the call that takes the session onward (arguments that
\* are accepted, confirm_information rather than revise_information, a
\* booking the backend accepts), every initialized session reaches the end
\* node and the end-of-conversation signal is produced.
C32_SessionEndsUnderFairness ==
    (current # None) ~> (current = "end" /\ ended)

\* C32's case: the session has ended with the signal after the patient had
\* asked for today's date on the way.
C32_Witness ==
    /\ current = "end"
    /\ ended
    /\ last.fn = "confirm_final_appointment"
    /\ last.events # <<>>
    /\ facts["DateInfoResult"].type # None
    /\ facts["AppointmentScheduleResult"].scheduled = TRUE

====
